---- MODULE Spec2Model ----
(***************************************************************************)
(* Session / window bookkeeping of SeleniumLibraryToBrowser (class SLtoB): *)
(* the id table, the alias table, the page catalogs and the operations     *)
(* that keep them in step with the Browser library ("the engine").         *)
(*                                                                         *)
(* Library state keeps the names of the Python attributes.  The engine is  *)
(* an external collaborator: it is modelled by the record eng and by the   *)
(* Eng* operators, which follow the documented contract of the Browser     *)
(* keywords the library calls.                                             *)
(***************************************************************************)
EXTENDS Integers, Sequences, FiniteSets, TLC

VARIABLES
    context_indexes,        \* self._context_indexes : syntheticId -> native context id
    context_aliases,        \* self._context_aliases : alias -> syntheticId
    browser_index,          \* self._browser_index   : the value next() returns next
    context_page_catalog,   \* self._context_page_catalog : context id -> list of page ids
    catalog_keys,           \* insertion order of the keys of _context_page_catalog
    eng,                    \* the engine: contexts, their pages, the active context/page
    ret,                    \* outcome of the operation that ran last
    issued,                 \* the syntheticIds open_browser has ever returned for a new handle
    issued_since,           \* those returned since close_all_browsers last ran
    sw,                     \* the running switch_window call (pc = "idle" when none)
    now,                    \* time.time() - epoch of the running switch_window call,
                            \* in ticks of 0.1 s (the retry sleep); 0 when none runs
    wu,                     \* the running _wait_until call (pc = "idle" when none)
    tr                      \* the last WebElement.get_single_locator / is_default call

vars == <<context_indexes, context_aliases, browser_index, context_page_catalog,
          catalog_keys, eng, ret, issued, issued_since, sw, now, wu, tr>>

tables == <<context_indexes, context_aliases, context_page_catalog, catalog_keys>>

-----------------------------------------------------------------------------
(* Bounds of the model *)

MaxContexts == 2        \* contexts the engine creates over a run
MaxPages    == 2        \* pages the engine creates over a run
MaxTime     == 3        \* clock ticks observed during switch_window calls
MaxPolls    == 4        \* evaluations of the condition in one _wait_until call
MaxRemainder == 3       \* characters after the strategy prefix of a locator
MaxSegments == 3        \* segments of a chained locator

-----------------------------------------------------------------------------
(* Values *)

None == 0               \* Python None, for ids (ids start at 1)

NoAlias == ""           \* alias=None (the default); `if alias:` is false for it

Aliases == {"a", "b"}   \* aliases callers pass to open_browser

\* what callers pass as index_or_alias / browser: decimal texts and alias names
Identifiers == {"1", "2", "a", "b"}

EmptyDict == [k \in {} |-> None]

\* dict.get(key, None)
Get(d, k) == IF k \in DOMAIN d THEN d[k] ELSE None

\* d[key] = value on a dict
Put(d, k, v) == [x \in DOMAIN d \cup {k} |-> IF x = k THEN v ELSE d[x]]

\* d.pop(key)
Pop(d, k) == [x \in DOMAIN d \ {k} |-> d[x]]

Range(s) == {s[i] : i \in 1..Len(s)}

\* list without its first occurrence of x (list.remove)
RECURSIVE ListRemove(_, _)
ListRemove(s, x) ==
    IF s = <<>> THEN <<>>
    ELSE IF Head(s) = x THEN Tail(s)
    ELSE <<Head(s)>> \o ListRemove(Tail(s), x)

\* int(context): the number a decimal text denotes, None where int() raises
\* ValueError (the except branch sets int_ctx = None)
ParseInt(s) ==
    CASE s = "1" -> 1
      [] s = "2" -> 2
      [] s = "3" -> 3
      [] s = "4" -> 4
      [] OTHER   -> None

\* str(i) for a syntheticId: the text a caller passes to name handle i
IntText(i) ==
    CASE i = 1 -> "1"
      [] i = 2 -> "2"
      [] i = 3 -> "3"
      [] i = 4 -> "4"
      [] OTHER -> "0"

-----------------------------------------------------------------------------
(* The engine (Browser library).  Every open_browser makes a persistent    *)
(* context, which is a browser of its own holding exactly one context, so  *)
(* "browser" and "context" coincide in the engine state.                   *)

EngInit ==
    [contexts  |-> <<>>,        \* live contexts, in the order get_browser_catalog lists them
     pages     |-> EmptyDict,   \* context id -> page ids, in the order get_page_ids reports
     active    |-> None,        \* the active context (None: no browser is open)
     page      |-> EmptyDict,   \* context id -> its active page (None: it has no page)
     next_ctx  |-> 1,           \* ids are fresh: the engine never hands one out twice
     next_page |-> 1]

\* new_persistent_context: a new context with one page; both become active
EngNewPersistentContext(e) ==
    [e EXCEPT !.contexts  = Append(@, e.next_ctx),
              !.pages     = Put(@, e.next_ctx, <<e.next_page>>),
              !.page      = Put(@, e.next_ctx, e.next_page),
              !.active    = e.next_ctx,
              !.next_ctx  = @ + 1,
              !.next_page = @ + 1]

\* switch_context(id, browser=ALL); the keyword returns the previously active context
EngSwitchContext(e, c) == [e EXCEPT !.active = c]

\* close_browser(ALL)
EngCloseAll(e) ==
    [e EXCEPT !.contexts = <<>>, !.pages = EmptyDict, !.page = EmptyDict, !.active = None]

\* close_context() and, the browser being left without a context, close_browser(CURRENT):
\* the active context goes away; a, one of the contexts left, is active afterwards
EngCloseContext(e, a) ==
    [e EXCEPT !.contexts = SelectSeq(@, LAMBDA c : c # e.active),
              !.pages    = Pop(@, e.active),
              !.page     = Pop(@, e.active),
              !.active   = a]

\* get_context_ids(CURRENT, browser=CURRENT)
EngCurrentContextIds(e) == IF e.active = None THEN <<>> ELSE <<e.active>>

\* get_page_ids(browser=CURRENT, context=CURRENT)
EngGetPageIds(e) == IF e.active = None THEN <<>> ELSE e.pages[e.active]

\* the context a page belongs to (None: the engine has no such page)
EngContextOf(e, p) ==
    IF \E c \in DOMAIN e.pages : p \in Range(e.pages[c])
    THEN CHOOSE c \in DOMAIN e.pages : p \in Range(e.pages[c])
    ELSE None

\* switch_page(id, context=ALL, browser=ALL): the page and its context become active
EngSwitchPage(e, p) ==
    LET c == EngContextOf(e, p) IN [e EXCEPT !.active = c, !.page[c] = p]

-----------------------------------------------------------------------------
(* Pure parts of the library's handlers *)

\* _get_pw_context_id (1378-1384) and switch_browser (2455-2461): the lookup in the
\* two tables, `indexes.get(int_ctx) or indexes.get(aliases.get(context))`; None is the
\* value on which the caller raises WindowNotFound
Lookup_MissIsCurrent(indexes, aliases, context) ==
    LET int_ctx == ParseInt(context)
        ctx_id  == IF Get(indexes, int_ctx) # None
                   THEN Get(indexes, int_ctx)
                   ELSE Get(indexes, Get(aliases, context))
    IN  IF ctx_id = None THEN eng.active ELSE ctx_id

Lookup(indexes, aliases, context) ==
    LET int_ctx == ParseInt(context)
    IN  IF Get(indexes, int_ctx) # None
        THEN Get(indexes, int_ctx)
        ELSE Get(indexes, Get(aliases, context))

\* the identifier the WindowNotFound message quotes: f"...'{context}'..."
WindowNotFoundNames(context) == context

\* first loop of _get_current_page_ids (1351-1353): engine ids not yet listed are appended
RECURSIVE AppendLoop_NoGuard(_, _)
AppendLoop_NoGuard(catalog, pw_page_ids) ==
    IF pw_page_ids = <<>> THEN catalog
    ELSE AppendLoop_NoGuard(Append(catalog, Head(pw_page_ids)), Tail(pw_page_ids))

RECURSIVE AppendLoop(_, _)
AppendLoop(catalog, pw_page_ids) ==
    IF pw_page_ids = <<>> THEN catalog
    ELSE AppendLoop(IF Head(pw_page_ids) \in Range(catalog)
                    THEN catalog
                    ELSE Append(catalog, Head(pw_page_ids)),
                    Tail(pw_page_ids))

\* second loop of _get_current_page_ids (1354-1356): `for page_id in lst: ... lst.remove(page_id)`.
\* The list iterator holds a position i; removing the element just read moves the rest
\* down by one while the position still advances.
RECURSIVE RemoveLoop(_, _, _)
RemoveLoop(catalog, i, reported) ==
    IF i > Len(catalog) THEN catalog
    ELSE IF catalog[i] \notin reported
         THEN RemoveLoop(ListRemove(catalog, catalog[i]), i + 1, reported)
         ELSE RemoveLoop(catalog, i + 1, reported)

\* _get_current_page_ids (1346-1357): the catalog list of the active context afterwards,
\* which is also the list returned
get_current_page_ids(catalog, pw_page_ids) ==
    RemoveLoop(AppendLoop(catalog, pw_page_ids), 1, Range(pw_page_ids))

\* _get_all_page_ids, loop 1362-1370 over the engine's contexts cs: page_ids (seen)
\* accumulates over all contexts visited so far
RECURSIVE AllLoop(_, _, _, _)
AllLoop(catalog, e, cs, seen) ==
    IF cs = <<>> THEN catalog
    ELSE LET c     == Head(cs)
             seen2 == seen \cup Range(e.pages[c])
             lst   == RemoveLoop(AppendLoop(catalog[c], e.pages[c]), 1, seen2)
         IN  AllLoop([catalog EXCEPT ![c] = lst], e, Tail(cs), seen2)

\* _get_all_page_ids, loop 1371-1373: the pages of every catalog entry, in key order
RECURSIVE Flatten(_, _)
Flatten(catalog, keys) ==
    IF keys = <<>> THEN <<>>
    ELSE catalog[Head(keys)] \o Flatten(catalog, Tail(keys))

\* next(self._browser_index): the counter after handing out c
next_browser_index_NoAdvance(c) == c

next_browser_index(c) == c + 1

\* open_browser, line 1769: the alias is already registered
open_browser_known_NeverKnown(alias) == FALSE

open_browser_known(alias) == alias \in DOMAIN context_aliases

\* close_browser, lines 939-947: the syntheticId whose context is current_id
IndexOf(current_id) ==
    IF \E i \in DOMAIN context_indexes : context_indexes[i] = current_id
    THEN CHOOSE i \in DOMAIN context_indexes : context_indexes[i] = current_id
    ELSE None

\* close_browser, lines 943-946: the alias table without the first alias of index
close_browser_aliases_Kept(aliases, index) == aliases

close_browser_aliases(aliases, index) ==
    IF \E a \in DOMAIN aliases : aliases[a] = index
    THEN Pop(aliases, CHOOSE a \in DOMAIN aliases : aliases[a] = index)
    ELSE aliases

\* _get_page_ids, line 1344 (finally): the context switched to on the way out
get_page_ids_restore_Stay(org_context, ctx_id) == ctx_id

get_page_ids_restore(org_context, ctx_id) == org_context

\* the record kept of the operation that ran last
\*   op: the keyword; path: the branch it took; arg: its argument; idx: the id it
\*   returned or acted on; pages: the page list it returned; exc: the exception it
\*   raised ("" when it returned); names: the identifier quoted in the message
Ret(op, path, arg, idx, pages, exc, names) ==
    [op |-> op, path |-> path, arg |-> arg, idx |-> idx, pages |-> pages,
     exc |-> exc, names |-> names]

\* a locator argument of switch_window: the text strategy[:=]value (strategy "" when
\* the text carries no name|title|url|default prefix), or a list of handles to exclude
StrLocator(strategy, value) ==
    [kind |-> "str", strategy |-> strategy, value |-> value, excluded |-> {}]

ListLocator(excluded) ==
    [kind |-> "list", strategy |-> "", value |-> "", excluded |-> excluded]

\* no switch_window call is running
SwIdle ==
    [pc |-> "idle", locator |-> StrLocator("", ""), browser |-> "", timeout |-> None,
     current_page_id |-> None, lookups |-> None, sleeps |-> None,
     written |-> StrLocator("", "")]

\* Optional[str] values of the wait loop: <<>> is None, <<t>> is the text t; a text is
\* the sequence of its pieces, "" being the empty sequence
NoText == <<>>

Some(t) == <<t>>

\* no _wait_until call has run
WuIdle ==
    [pc |-> "idle", template |-> <<>>, custom_error |-> NoText, timeout |-> None,
     error |-> <<>>, max_time |-> None, not_found |-> NoText, clock |-> None,
     evals |-> None, sleeps |-> None, raises |-> None,
     last |-> [kind |-> "", msg |-> <<>>], out |-> "", msg |-> <<>>]

\* no locator has been translated
TrIdle ==
    [op |-> "", word |-> <<>>, sep |-> <<>>, rest |-> <<>>, locator |-> <<>>,
     out |-> "", strategy |-> "", loc |-> <<>>, native |-> <<>>, default |-> NoText]

-----------------------------------------------------------------------------
(* Initial state: SLtoB.__init__, lines 546-551; no browser is open *)

Init ==
    /\ context_indexes = EmptyDict
    /\ context_aliases = EmptyDict
    /\ browser_index = 1
    /\ context_page_catalog = EmptyDict
    /\ catalog_keys = <<>>
    /\ eng = EngInit
    /\ ret = Ret("init", "", "", None, <<>>, "", "")
    /\ issued = {}
    /\ issued_since = {}
    /\ sw = SwIdle
    /\ now = 0
    /\ wu = WuIdle
    /\ tr = TrIdle

-----------------------------------------------------------------------------
(* Keywords of the session catalog *)

\* open_browser, lines 1757-1791
open_browser(alias) ==
    /\ sw.pc = "idle"
    /\ IF open_browser_known(alias)
       THEN LET idx    == context_aliases[alias]
                ctx_id == context_indexes[idx]
            IN  /\ eng' = EngSwitchContext(eng, ctx_id)
                /\ ret' = Ret("open_browser", "existing", alias, idx, <<>>, "", "")
                /\ UNCHANGED <<tables, browser_index, issued, issued_since>>
       ELSE /\ eng.next_ctx <= MaxContexts
            /\ eng.next_page <= MaxPages
            /\ LET context_id == eng.next_ctx
                   page_id    == eng.next_page
                   identifier == browser_index
               IN  /\ eng' = EngNewPersistentContext(eng)
                   /\ browser_index' = next_browser_index(browser_index)
                   /\ context_indexes' = Put(context_indexes, identifier, context_id)
                   /\ context_page_catalog' = Put(context_page_catalog, context_id, <<page_id>>)
                   /\ catalog_keys' = IF context_id \in Range(catalog_keys)
                                      THEN catalog_keys
                                      ELSE Append(catalog_keys, context_id)
                   /\ context_aliases' = IF alias # NoAlias
                                         THEN Put(context_aliases, alias, identifier)
                                         ELSE context_aliases
                   /\ issued' = issued \cup {identifier}
                   /\ issued_since' = issued_since \cup {identifier}
                   /\ ret' = Ret("open_browser", "new", alias, identifier, <<page_id>>, "", "")
    /\ UNCHANGED <<sw, now>>
    /\ UNCHANGED <<wu, tr>>

\* line 930: close_all_browsers starts a new id table
close_all_context_indexes_Kept == context_indexes

close_all_context_indexes == EmptyDict

\* the body of close_all_browsers, lines 927-931
CloseAll ==
    /\ eng' = EngCloseAll(eng)
    /\ context_page_catalog' = EmptyDict
    /\ catalog_keys' = <<>>
    /\ context_aliases' = EmptyDict
    /\ context_indexes' = close_all_context_indexes
    /\ browser_index' = 1
    /\ issued_since' = {}

\* close_all_browsers, lines 925-931
close_all_browsers ==
    /\ sw.pc = "idle"
    /\ CloseAll
    /\ ret' = Ret("close_all_browsers", "", "", None, <<>>, "", "")
    /\ UNCHANGED <<issued, sw, now>>
    /\ UNCHANGED <<wu, tr>>

\* line 940: close_browser drops the page catalog of the closed handle
close_browser_catalog_Kept(catalog, ctx_id) == catalog

close_browser_catalog(catalog, ctx_id) == Pop(catalog, ctx_id)

\* close_browser, lines 933-952
close_browser ==
    /\ sw.pc = "idle"
    /\ IF EngCurrentContextIds(eng) = <<>>
       THEN /\ CloseAll
            /\ ret' = Ret("close_browser", "all", "", None, <<>>, "", "")
       ELSE LET current_id == EngCurrentContextIds(eng)[1]
                index      == IndexOf(current_id)
                alias      == IF \E a \in DOMAIN context_aliases : context_aliases[a] = index
                              THEN CHOOSE a \in DOMAIN context_aliases : context_aliases[a] = index
                              ELSE NoAlias
                left       == Range(eng.contexts) \ {current_id}
            IN  /\ IF index # None
                   THEN /\ context_page_catalog' =
                               close_browser_catalog(context_page_catalog, current_id)
                        /\ catalog_keys' = SelectSeq(catalog_keys, LAMBDA c : c # current_id)
                        /\ context_indexes' = Pop(context_indexes, index)
                        /\ context_aliases' = close_browser_aliases(context_aliases, index)
                   ELSE UNCHANGED tables
                /\ \E a \in (IF left = {} THEN {None} ELSE left) :
                       eng' = EngCloseContext(eng, a)
                /\ ret' = Ret("close_browser", "current", alias, index, <<>>, "", "")
                /\ UNCHANGED <<browser_index, issued_since>>
    /\ UNCHANGED <<issued, sw, now>>
    /\ UNCHANGED <<wu, tr>>

\* switch_browser, lines 2453-2464
switch_browser(index_or_alias) ==
    /\ sw.pc = "idle"
    /\ LET ctx_id == Lookup(context_indexes, context_aliases, index_or_alias)
       IN  IF ctx_id = None
           THEN /\ ret' = Ret("switch_browser", "miss", index_or_alias, None, <<>>,
                              "WindowNotFound", WindowNotFoundNames(index_or_alias))
                /\ UNCHANGED eng
           ELSE /\ eng' = EngSwitchContext(eng, ctx_id)
                /\ ret' = Ret("switch_browser", "hit", index_or_alias, eng.active, <<>>, "", "")
    /\ UNCHANGED <<tables, browser_index, issued, issued_since, sw, now>>
    /\ UNCHANGED <<wu, tr>>

\* _get_page_ids, lines 1333-1344, with _get_current_page_ids and _get_all_page_ids,
\* run on tables and engine as they are: what it returns or raises, and the engine
\* state and page catalogs it leaves.  engine_fails: the engine's enumeration raises
PageIds(context, engine_fails) ==
    LET Out(path, idx, pages, exc, names, e, catalog) ==
            [path |-> path, idx |-> idx, pages |-> pages, exc |-> exc, names |-> names,
             eng |-> e, catalog |-> catalog]
    IN
    CASE context = "CURRENT" ->
           IF engine_fails
           THEN Out("current", None, <<>>, "EngineError", "", eng, context_page_catalog)
           ELSE IF EngCurrentContextIds(eng) = <<>>
           THEN Out("current", None, <<>>, "IndexError", "", eng, context_page_catalog)
           ELSE LET c   == EngCurrentContextIds(eng)[1]
                    lst == get_current_page_ids(context_page_catalog[c], EngGetPageIds(eng))
                IN  Out("current", c, lst, "", "", eng,
                        [context_page_catalog EXCEPT ![c] = lst])
      [] context = "ALL" ->
           IF engine_fails
           THEN Out("all", None, <<>>, "EngineError", "", eng, context_page_catalog)
           ELSE LET catalog == AllLoop(context_page_catalog, eng, eng.contexts, {})
                IN  Out("all", None, Flatten(catalog, catalog_keys), "", "", eng, catalog)
      [] OTHER ->
           LET ctx_id == Lookup(context_indexes, context_aliases, context)
           IN  IF ctx_id = None
               THEN Out("miss", None, <<>>, "WindowNotFound", WindowNotFoundNames(context),
                        eng, context_page_catalog)
               ELSE LET org_context == eng.active
                        switched    == EngSwitchContext(eng, ctx_id)
                        lst         == get_current_page_ids(context_page_catalog[ctx_id],
                                                            EngGetPageIds(switched))
                        back        == EngSwitchContext(switched,
                                           get_page_ids_restore(org_context, ctx_id))
                    IN  IF engine_fails
                        THEN Out("handle", ctx_id, <<>>, "EngineError", "", back,
                                 context_page_catalog)
                        ELSE Out("handle", ctx_id, lst, "", "", back,
                                 [context_page_catalog EXCEPT ![ctx_id] = lst])

\* get_window_handles, lines 1536-1538: _get_page_ids called as a keyword
get_page_ids(context, engine_fails) ==
    /\ sw.pc = "idle"
    /\ LET r == PageIds(context, engine_fails)
       IN  /\ eng' = r.eng
           /\ context_page_catalog' = r.catalog
           /\ ret' = Ret("get_page_ids", r.path, context, r.idx, r.pages, r.exc, r.names)
    /\ UNCHANGED <<context_indexes, context_aliases, catalog_keys, browser_index,
                   issued, issued_since, sw, now>>
    /\ UNCHANGED <<wu, tr>>

-----------------------------------------------------------------------------
(* What happens in the browsers without the library: a script or the user   *)
(* opens a page (popup, target=_blank) or closes one                        *)

\* a page of context c opens another page (popup, target=_blank); the engine lists it
\* last, and the page that was active stays active
EnginePageOpens(c) ==
    /\ c \in DOMAIN eng.pages
    /\ eng.pages[c] # <<>>
    /\ eng.next_page <= MaxPages
    /\ eng' = [eng EXCEPT !.pages[c] = Append(@, eng.next_page),
                          !.next_page = @ + 1]
    /\ ret' = Ret("engine", "page_opens", "", None, <<>>, "", "")
    /\ UNCHANGED <<tables, browser_index, issued, issued_since, sw, now>>
    /\ UNCHANGED <<wu, tr>>

\* page p of context c closes; when it was the active page, a page left over (if any)
\* becomes the active one
EnginePageCloses(c, p) ==
    /\ c \in DOMAIN eng.pages
    /\ p \in Range(eng.pages[c])
    /\ LET left == Range(eng.pages[c]) \ {p}
       IN  \E q \in (IF eng.page[c] # p THEN {eng.page[c]}
                     ELSE IF left = {} THEN {None} ELSE left) :
              eng' = [eng EXCEPT !.pages[c] = SelectSeq(@, LAMBDA x : x # p),
                                 !.page[c]  = q]
    /\ ret' = Ret("engine", "page_closes", "", None, <<>>, "", "")
    /\ UNCHANGED <<tables, browser_index, issued, issued_since, sw, now>>
    /\ UNCHANGED <<wu, tr>>

-----------------------------------------------------------------------------
(* switch_window, lines 2466-2531.  One pass of its `while True` body is one  *)
(* step; between passes the call sleeps, and the browsers may change.         *)

\* what the pages show: handle, window.name, title and URL of page p
PageHandle(p) ==
    CASE p = 1 -> "p1" [] p = 2 -> "p2" [] p = 3 -> "p3" [] p = 4 -> "p4" [] OTHER -> "p5"

PageName(p) == IF p = 2 THEN "x" ELSE "n"

PageTitle(p) == IF p = 1 THEN "x" ELSE "t"

PageUrl(p) == IF p = 3 THEN "x" ELSE "u"

\* the tests of lines 2498-2507 on the page_info of page p, the index-th page visited
Matches(strategy, value, p, index) ==
    \/ strategy = "default" /\ PageHandle(p) = value
    \/ strategy \in {"default", "name"} /\ PageName(p) = value
    \/ strategy \in {"default", "title"} /\ PageTitle(p) = value
    \/ strategy \in {"default", "url"} /\ PageUrl(p) = value
    \/ strategy = "default" /\ value = "MAIN" /\ index = 0

\* switch_page("NEW", context=c, browser=ALL): context c and its newest page become
\* active (out "EngineError" when the context has no page)
EngSwitchPageNew(e, c) ==
    IF e.pages[c] = <<>>
    THEN [out |-> "EngineError", eng |-> e]
    ELSE [out |-> "return",
          eng |-> [e EXCEPT !.active = c, !.page[c] = e.pages[c][Len(e.pages[c])]]]

\* switch_page(id), context and browser left at CURRENT: the page becomes the active
\* page of the active context (the engine raises when that context has no such page)
EngSwitchPageCurrent_Stay(e, p) ==
    [out |-> "return", eng |-> e]

EngSwitchPageCurrent(e, p) ==
    IF e.active # None /\ p \in Range(e.pages[e.active])
    THEN [out |-> "return", eng |-> [e EXCEPT !.page[e.active] = p]]
    ELSE [out |-> "EngineError", eng |-> e]

\* the loop 2495-2507 over _generate_window_information (2524-2531): each page is
\* switched to (the engine raises on a page it no longer has) and then tested
RECURSIVE VisitPages(_, _, _, _, _)
VisitPages(pages, index, e, strategy, value) ==
    IF pages = <<>> THEN [out |-> "nomatch", eng |-> e]
    ELSE IF EngContextOf(e, Head(pages)) = None THEN [out |-> "EngineError", eng |-> e]
    ELSE IF Matches(strategy, value, Head(pages), index)
         THEN [out |-> "return", eng |-> EngSwitchPage(e, Head(pages))]
         ELSE VisitPages(Tail(pages), index + 1, EngSwitchPage(e, Head(pages)),
                         strategy, value)

\* the loop 2510-2513: the first page that is not in the list is switched to
RECURSIVE VisitList(_, _, _)
VisitList(pages, e, excluded) ==
    IF pages = <<>> THEN [out |-> "nomatch", eng |-> e]
    ELSE IF Head(pages) \in excluded THEN VisitList(Tail(pages), e, excluded)
    ELSE IF EngContextOf(e, Head(pages)) = None THEN [out |-> "EngineError", eng |-> e]
    ELSE [out |-> "return", eng |-> EngSwitchPage(e, Head(pages))]

\* time.time() > timeout, for a reading taken after epoch was read: with the clock
\* counted in whole ticks since epoch, the reading is `t` ticks and a bit
TimeIsAfter(t, timeout) == t >= timeout

\* one pass of the try body, lines 2480-2516: out is "return", or the exception raised
SwTry(locator, browser, current_page_id) ==
    LET Out(out, path, e, catalog, loc, lookups, names) ==
            [out |-> out, path |-> path, eng |-> e, catalog |-> catalog, locator |-> loc,
             lookups |-> lookups, names |-> names]
        \* lines 2487-2494: the prefix is cut off the local variable locator
        strategy == IF locator.strategy = "" THEN "default" ELSE locator.strategy
        stripped == StrLocator("", locator.value)
        ids      == PageIds(browser, FALSE)
        looked   == IF browser \in {"CURRENT", "ALL"} THEN 0 ELSE 1
    IN
    IF locator.kind = "str" /\ locator.strategy = "" /\ locator.value = "CURRENT"
    THEN Out("return", "current", eng, context_page_catalog, locator, 0, "")
    ELSE IF locator.kind = "str" /\ locator.strategy = "" /\ locator.value = "NEW"
    THEN \* lines 2483-2486; _get_pw_context_id (1375-1387)
         IF browser = "CURRENT"
         THEN IF EngCurrentContextIds(eng) = <<>>
              THEN Out("IndexError", "new", eng, context_page_catalog, locator, 0, "")
              ELSE LET r == EngSwitchPageNew(eng, EngCurrentContextIds(eng)[1])
                   IN  Out(r.out, "new", r.eng, context_page_catalog, locator, 0, "")
         ELSE LET ctx_id == Lookup(context_indexes, context_aliases, browser)
              IN  IF ctx_id = None
                  THEN Out("WindowNotFound", "miss", eng, context_page_catalog, locator, 1,
                           WindowNotFoundNames(browser))
                  ELSE LET r == EngSwitchPageNew(eng, ctx_id)
                       IN  Out(r.out, "new", r.eng, context_page_catalog, locator, 1, "")
    ELSE IF ids.exc # ""
    THEN Out(ids.exc, ids.path, ids.eng, ids.catalog,
             IF locator.kind = "str" THEN stripped ELSE locator, looked, ids.names)
    ELSE IF locator.kind = "str"
    THEN LET v == VisitPages(ids.pages, 0, ids.eng, strategy, stripped.value)
         IN  IF v.out # "nomatch"
             THEN Out(v.out, "match", v.eng, ids.catalog, stripped, looked, "")
             \* line 2508: switch_page(current_page_id), then line 2514
             ELSE LET back == EngSwitchPageCurrent(v.eng, current_page_id)
                  IN  IF back.out = "return"
                      THEN Out("WindowNotFound", "nomatch", back.eng,
                               ids.catalog, stripped, looked, stripped.value)
                      ELSE Out("EngineError", "nomatch", back.eng, ids.catalog, stripped,
                               looked, "")
    ELSE LET v == VisitList(ids.pages, ids.eng, locator.excluded)
         IN  IF v.out # "nomatch"
             THEN Out(v.out, "match", v.eng, ids.catalog, locator, looked, "")
             ELSE Out("WindowNotFound", "nomatch", v.eng, ids.catalog, locator, looked, "")

\* lines 2473-2477: the call begins; the clock `now` counts from epoch
switch_window(locator, timeout, browser) ==
    /\ sw.pc = "idle"
    /\ now' = 0
    /\ IF eng.active = None \/ Get(eng.page, eng.active) = None
       THEN \* _get_current_page_id: get_page_ids(...)[0] on an empty list
            /\ sw' = SwIdle
            /\ ret' = Ret("switch_window", "begin", browser, None, <<>>, "IndexError", "")
       ELSE /\ sw' = [pc |-> "try", locator |-> locator, browser |-> browser,
                      timeout |-> now' + timeout,
                      current_page_id |-> eng.page[eng.active],
                      lookups |-> 0, sleeps |-> 0, written |-> locator]
            /\ ret' = Ret("switch_window", "begin", browser, None, <<>>, "", "")
    /\ UNCHANGED <<tables, browser_index, issued, issued_since, eng>>
    /\ UNCHANGED <<wu, tr>>

\* lines 2478-2519: one pass of the loop, up to the return, the raise or the sleep
switch_window_try ==
    /\ sw.pc = "try"
    /\ LET r == SwTry(sw.locator, sw.browser, sw.current_page_id)
       IN  /\ eng' = r.eng
           /\ context_page_catalog' = r.catalog
           /\ IF r.out = "WindowNotFound" /\ ~TimeIsAfter(now, sw.timeout)
              THEN /\ sw' = [sw EXCEPT !.pc = "sleep", !.locator = r.locator,
                                       !.lookups = @ + r.lookups]
                   /\ ret' = Ret("switch_window", "retry", sw.browser, None, <<>>, "", "")
                   /\ now' = now
              ELSE \* the call is over: sw keeps its counts only, the clock is dropped
                   /\ sw' = [SwIdle EXCEPT !.lookups = sw.lookups + r.lookups,
                                           !.sleeps = sw.sleeps]
                   /\ ret' = Ret("switch_window", r.path, sw.browser, sw.current_page_id,
                                 <<>>, IF r.out = "return" THEN "" ELSE r.out, r.names)
                   /\ now' = 0
    /\ UNCHANGED <<context_indexes, context_aliases, catalog_keys, browser_index,
                   issued, issued_since>>
    /\ UNCHANGED <<wu, tr>>

\* line 2520: time.sleep(0.1), one tick
switch_window_sleep ==
    /\ sw.pc = "sleep"
    /\ now < MaxTime
    /\ now' = now + 1
    /\ sw' = [sw EXCEPT !.pc = "try", !.sleeps = @ + 1]
    /\ UNCHANGED <<tables, browser_index, issued, issued_since, eng, ret>>
    /\ UNCHANGED <<wu, tr>>

\* the clock goes on while the call works or oversleeps
Tick ==
    /\ sw.pc # "idle"
    /\ now < MaxTime
    /\ now' = now + 1
    /\ UNCHANGED <<tables, browser_index, issued, issued_since, eng, ret, sw>>
    /\ UNCHANGED <<wu, tr>>

-----------------------------------------------------------------------------

Next ==
    \/ \E alias \in Aliases \cup {NoAlias} : open_browser(alias)
    \/ close_all_browsers
    \/ close_browser
    \/ \E id \in Identifiers : switch_browser(id)
    \/ \E context \in {"CURRENT", "ALL"} \cup Identifiers, f \in BOOLEAN :
          get_page_ids(context, f)
    \/ \E c \in 1..MaxContexts : EnginePageOpens(c)
    \/ \E c \in 1..MaxContexts, p \in 1..MaxPages : EnginePageCloses(c, p)

Spec == Init /\ [][Next]_vars

\* the callers' arguments to switch_window
Locators ==
    {StrLocator("", "x"), StrLocator("title", "x"), StrLocator("", "y"),
     StrLocator("", "NEW"), StrLocator("", "CURRENT"), StrLocator("", "MAIN"),
     ListLocator({1})}

Timeouts == {0, 2}      \* timeout=None, and timeout="0.2s" in ticks

Browsers == {"CURRENT", "ALL", "1", "2"}

\* sessions in which switch_window is used
NextWindow ==
    \/ \E alias \in {NoAlias} : open_browser(alias)
    \/ close_browser
    \/ \E id \in {"1", "2"} : switch_browser(id)
    \/ \E c \in 1..MaxContexts : EnginePageOpens(c)
    \/ \E c \in 1..MaxContexts, p \in 1..MaxPages : EnginePageCloses(c, p)
    \/ \E l \in Locators, t \in Timeouts, b \in Browsers : switch_window(l, t, b)
    \/ switch_window_try
    \/ switch_window_sleep
    \/ Tick

SpecWindow == Init /\ [][NextWindow]_vars

-----------------------------------------------------------------------------
(* get_window_titles, get_window_names, get_window_identifiers and            *)
(* get_locations, lines 1320-1331 and 1540-1588: one body, four attributes.   *)

\* the generators 1329-1331, 1548-1551, 1561-1564, 1585-1588: each page of the list is
\* switched to and then read; the engine raises on a page it no longer has, and the
\* read of the fails_at-th page raises.  visited: the pages switched to, in order
RECURSIVE GenerateInfos(_, _, _, _, _)
GenerateInfos(pages, k, e, fails_at, visited) ==
    IF pages = <<>> THEN [out |-> "return", eng |-> e, visited |-> visited]
    ELSE IF EngContextOf(e, Head(pages)) = None
    THEN [out |-> "EngineError", eng |-> e, visited |-> visited]
    ELSE IF k = fails_at
    THEN [out |-> "EngineError", eng |-> EngSwitchPage(e, Head(pages)),
          visited |-> Append(visited, Head(pages))]
    ELSE GenerateInfos(Tail(pages), k + 1, EngSwitchPage(e, Head(pages)), fails_at,
                       Append(visited, Head(pages)))

\* the finally clause, lines 1326, 1546, 1559, 1583: switch_page(current_page, ALL, ALL)
WindowInfosFinally_Stay(e, current_page) ==
    [out |-> "return", eng |-> e]

WindowInfosFinally(e, current_page) ==
    IF EngContextOf(e, current_page) = None
    THEN [out |-> "EngineError", eng |-> e]
    ELSE [out |-> "return", eng |-> EngSwitchPage(e, current_page)]

\* the common body of the four keywords
WindowInfos(keyword, browser, engine_fails, fails_at) ==
    /\ sw.pc = "idle"
    /\ IF eng.active = None \/ Get(eng.page, eng.active) = None
       THEN \* _get_current_page_id: get_page_ids(...)[0] on an empty list
            /\ ret' = Ret(keyword, "begin", browser, None, <<>>, "IndexError", "")
            /\ UNCHANGED <<eng, context_page_catalog>>
       ELSE LET current_page == eng.page[eng.active]
                ids  == PageIds(browser, engine_fails)
                v    == IF ids.exc # ""
                        THEN [out |-> ids.exc, eng |-> ids.eng, visited |-> <<>>]
                        ELSE GenerateInfos(ids.pages, 1, ids.eng, fails_at, <<>>)
                back == WindowInfosFinally(v.eng, current_page)
            IN  /\ eng' = back.eng
                /\ context_page_catalog' = ids.catalog
                /\ ret' = Ret(keyword, ids.path, browser, current_page, v.visited,
                              IF back.out # "return" THEN back.out
                              ELSE IF v.out = "return" THEN "" ELSE v.out,
                              ids.names)
    /\ UNCHANGED <<context_indexes, context_aliases, catalog_keys, browser_index,
                   issued, issued_since, sw, now>>
    /\ UNCHANGED <<wu, tr>>

get_locations(browser, engine_fails, fails_at) ==
    WindowInfos("get_locations", browser, engine_fails, fails_at)

get_window_identifiers(browser, engine_fails, fails_at) ==
    WindowInfos("get_window_identifiers", browser, engine_fails, fails_at)

get_window_names(browser, engine_fails, fails_at) ==
    WindowInfos("get_window_names", browser, engine_fails, fails_at)

get_window_titles(browser, engine_fails, fails_at) ==
    WindowInfos("get_window_titles", browser, engine_fails, fails_at)

\* the page whose read raises: none (0), or the k-th of the enumeration
FailsAt == 0..MaxPages

\* sessions in which the windows are enumerated
NextInfos ==
    \/ \E alias \in {NoAlias} : open_browser(alias)
    \/ close_browser
    \/ \E id \in {"1", "2"} : switch_browser(id)
    \/ \E c \in 1..MaxContexts : EnginePageOpens(c)
    \/ \E c \in 1..MaxContexts, p \in 1..MaxPages : EnginePageCloses(c, p)
    \/ \E b \in Browsers, f \in BOOLEAN, k \in FailsAt : get_locations(b, f, k)
    \/ \E b \in Browsers, f \in BOOLEAN, k \in FailsAt : get_window_identifiers(b, f, k)
    \/ \E b \in Browsers, f \in BOOLEAN, k \in FailsAt : get_window_names(b, f, k)
    \/ \E b \in Browsers, f \in BOOLEAN, k \in FailsAt : get_window_titles(b, f, k)

SpecInfos == Init /\ [][NextInfos]_vars

-----------------------------------------------------------------------------
(* The polling wait: _wait_until and _wait_until_worker, lines 3065-3085.    *)
(* Time is counted from the start of the call in ticks of 0.2 s, the sleep   *)
(* between two polls.                                                        *)

\* robot.utils.secs_to_timestr for a timeout given in ticks of 0.2 s
secs_to_timestr(timeout) ==
    CASE timeout = 0 -> "0 seconds"
      [] timeout = 1 -> "200 milliseconds"
      [] timeout = 2 -> "400 milliseconds"
      [] timeout = 3 -> "600 milliseconds"
      [] timeout = 4 -> "800 milliseconds"
      [] OTHER       -> "1 second"

\* str.replace("<TIMEOUT>", shown): every occurrence is replaced
Replace(text, shown) ==
    [i \in 1..Len(text) |-> IF text[i] = "<TIMEOUT>" THEN shown ELSE text[i]]

\* lines 3067-3070: the message the worker is given
WaitError(error, timeout, custom_error) ==
    IF custom_error = NoText
    THEN Replace(error, secs_to_timestr(timeout))
    ELSE custom_error[1]

\* line 3074: max_time = time.time() + timeout
Deadline(t, timeout) == t + timeout

\* line 3076: while time.time() < max_time
LoopGoesOn_EndsEarly(t, max_time) == t + 1 < max_time

LoopGoesOn(t, max_time) == t < max_time

\* line 3078: `if condition(): return`
ReturnsOn_Never(outcome) == FALSE

ReturnsOn(outcome) == outcome.kind = "true"

\* line 3080: `except Exception` catches what the condition raises
Caught_Nothing(outcome) == FALSE

Caught(outcome) == outcome.kind = "raise"

\* lines 3080-3083: not_found after an evaluation that did not return true
NotFoundAfter(outcome) ==
    IF Caught(outcome) THEN Some(outcome.msg) ELSE NoText

\* line 3085: `not_found or error`; None and "" are both false
AssertionMessage_ErrorFirst(not_found, error) ==
    IF error # <<>> THEN error
    ELSE IF not_found # NoText THEN not_found[1] ELSE error

AssertionMessage(not_found, error) ==
    IF not_found # NoText /\ not_found[1] # <<>> THEN not_found[1] ELSE error

\* line 3084: time.sleep(0.2) lets one tick pass
AfterSleep_NoTime(t) == t

AfterSleep(t) == t + 1

\* what callers pass and what conditions do
Templates == {<<"X did not happen in ", "<TIMEOUT>", ".">>, <<"gone">>}

CustomErrors == {NoText, Some(<<>>), Some(<<"custom ", "<TIMEOUT>">>)}

WaitTimeouts == {0, 1, 3}

Outcomes ==
    {[kind |-> "true", msg |-> <<>>], [kind |-> "false", msg |-> <<>>],
     [kind |-> "raise", msg |-> <<"not ready">>], [kind |-> "raise", msg |-> <<>>]}

\* _wait_until, lines 3065-3071, and the first two lines of the worker
wait_until(error, timeout, custom_error) ==
    /\ wu.pc = "idle"
    /\ sw.pc = "idle"
    /\ wu' = [pc |-> "check", template |-> error, custom_error |-> custom_error,
              timeout |-> timeout,
              error |-> WaitError(error, timeout, custom_error),
              max_time |-> Deadline(0, timeout), not_found |-> NoText, clock |-> 0,
              evals |-> 0, sleeps |-> 0, raises |-> 0,
              last |-> [kind |-> "", msg |-> <<>>], out |-> "", msg |-> <<>>]
    /\ UNCHANGED <<tables, browser_index, issued, issued_since, eng, ret, sw, now, tr>>

\* lines 3076 and 3085: the loop test, and the assertion when it fails
wait_until_check ==
    /\ wu.pc = "check"
    /\ IF LoopGoesOn(wu.clock, wu.max_time)
       THEN wu' = [wu EXCEPT !.pc = "eval"]
       ELSE wu' = [wu EXCEPT !.pc = "idle", !.out = "AssertionError",
                             !.msg = AssertionMessage(wu.not_found, wu.error)]
    /\ UNCHANGED <<tables, browser_index, issued, issued_since, eng, ret, sw, now, tr>>

\* lines 3077-3083: one evaluation of the condition
wait_until_condition(outcome) ==
    /\ wu.pc = "eval"
    /\ wu.evals < MaxPolls
    /\ LET w == [wu EXCEPT !.evals = @ + 1, !.last = outcome,
                           !.raises = IF outcome.kind = "raise" THEN @ + 1 ELSE @]
       IN  IF ReturnsOn(outcome)
           THEN wu' = [w EXCEPT !.pc = "idle", !.out = "returned"]
           ELSE IF outcome.kind = "raise" /\ ~Caught(outcome)
           THEN wu' = [w EXCEPT !.pc = "idle", !.out = "Exception", !.msg = outcome.msg]
           ELSE wu' = [w EXCEPT !.pc = "sleep", !.not_found = NotFoundAfter(outcome)]
    /\ UNCHANGED <<tables, browser_index, issued, issued_since, eng, ret, sw, now, tr>>

\* line 3084
wait_until_sleep ==
    /\ wu.pc = "sleep"
    /\ wu' = [wu EXCEPT !.pc = "check", !.clock = AfterSleep(@), !.sleeps = @ + 1]
    /\ UNCHANGED <<tables, browser_index, issued, issued_since, eng, ret, sw, now, tr>>

\* the clock goes on while the condition is evaluated or the thread oversleeps
ClockAdvances ==
    /\ wu.pc # "idle"
    /\ wu.clock < MaxTime
    /\ wu' = [wu EXCEPT !.clock = @ + 1]
    /\ UNCHANGED <<tables, browser_index, issued, issued_since, eng, ret, sw, now, tr>>

WaitSteps ==
    \/ wait_until_check
    \/ \E o \in Outcomes : wait_until_condition(o)
    \/ wait_until_sleep

NextWait ==
    \/ \E e \in Templates, t \in WaitTimeouts, c \in CustomErrors : wait_until(e, t, c)
    \/ wait_until_check
    \/ \E o \in Outcomes : wait_until_condition(o)
    \/ wait_until_sleep
    \/ ClockAdvances

SpecWait == Init /\ [][NextWait]_vars

\* the condition returns and the sleep ends: every step of a running call is taken
SpecWaitFair == SpecWait /\ WF_vars(WaitSteps)

-----------------------------------------------------------------------------
(* Locator translation: class WebElement, lines 107-183.  A text is the      *)
(* sequence of its characters.                                               *)

\* the characters of the string literals of the source
Text(s) ==
    CASE s = "dom" -> <<"d", "o", "m">>
      [] s = "id" -> <<"i", "d">>
      [] s = "name" -> <<"n", "a", "m", "e">>
      [] s = "identifier" -> <<"i", "d", "e", "n", "t", "i", "f", "i", "e", "r">>
      [] s = "class" -> <<"c", "l", "a", "s", "s">>
      [] s = "tag" -> <<"t", "a", "g">>
      [] s = "xpath" -> <<"x", "p", "a", "t", "h">>
      [] s = "css" -> <<"c", "s", "s">>
      [] s = "jquery" -> <<"j", "q", "u", "e", "r", "y">>
      [] s = "sizzle" -> <<"s", "i", "z", "z", "l", "e">>
      [] s = "link" -> <<"l", "i", "n", "k">>
      [] s = "partial link" -> <<"p", "a", "r", "t", "i", "a", "l", " ", "l", "i", "n", "k">>
      [] s = "text" -> <<"t", "e", "x", "t">>
      [] s = "data" -> <<"d", "a", "t", "a">>
      [] s = "element" -> <<"e", "l", "e", "m", "e", "n", "t">>
      [] s = "default" -> <<"d", "e", "f", "a", "u", "l", "t">>
      [] s = "nth" -> <<"n", "t", "h">>
      [] s = "id=" -> <<"i", "d", "=">>
      [] s = "css=[name=" -> <<"c", "s", "s", "=", "[", "n", "a", "m", "e", "=">>
      [] s = "]" -> <<"]">>
      [] s = "css=[id=" -> <<"c", "s", "s", "=", "[", "i", "d", "=">>
      [] s = "], [name=" -> <<"]", ",", " ", "[", "n", "a", "m", "e", "=">>
      [] s = "css=." -> <<"c", "s", "s", "=", ".">>
      [] s = "css=" -> <<"c", "s", "s", "=">>
      [] s = "xpath=" -> <<"x", "p", "a", "t", "h", "=">>
      [] s = "css=a >> text=\"" -> <<"c", "s", "s", "=", "a", " ", ">", ">", " ", "t", "e", "x", "t", "=", "\"">>
      [] s = "\"" -> <<"\"">>
      [] s = "css=a >> text=" -> <<"c", "s", "s", "=", "a", " ", ">", ">", " ", "t", "e", "x", "t", "=">>
      [] s = "text=" -> <<"t", "e", "x", "t", "=">>
      [] s = "//*[@data-" -> <<"/", "/", "*", "[", "@", "d", "a", "t", "a", "-">>
      [] s = "=\"" -> <<"=", "\"">>
      [] s = "\"]" -> <<"\"", "]">>
      [] s = "element=" -> <<"e", "l", "e", "m", "e", "n", "t", "=">>
      [] s = "nth=" -> <<"n", "t", "h", "=">>
      [] s = "[id='" -> <<"[", "i", "d", "=", "'">>
      [] s = "'], [name='" -> <<"'", "]", ",", " ", "[", "n", "a", "m", "e", "=", "'">>
      [] s = "']" -> <<"'", "]">>

LowerLetters ==
    <<"a", "b", "c", "d", "e", "f", "g", "h", "i", "j", "k", "l", "m",
      "n", "o", "p", "q", "r", "s", "t", "u", "v", "w", "x", "y", "z">>

UpperLetters ==
    <<"A", "B", "C", "D", "E", "F", "G", "H", "I", "J", "K", "L", "M",
      "N", "O", "P", "Q", "R", "S", "T", "U", "V", "W", "X", "Y", "Z">>

\* case folding of re.IGNORECASE
Lower(c) ==
    IF \E i \in 1..Len(UpperLetters) : UpperLetters[i] = c
    THEN LowerLetters[CHOOSE i \in 1..Len(UpperLetters) : UpperLetters[i] = c]
    ELSE c

Upper(c) ==
    IF \E i \in 1..Len(LowerLetters) : LowerLetters[i] = c
    THEN UpperLetters[CHOOSE i \in 1..Len(LowerLetters) : LowerLetters[i] = c]
    ELSE c

\* locator[i:] of Python, i counted from 0
From(t, i) == SubSeq(t, i + 1, Len(t))

StartsWith(t, prefix) ==
    Len(t) >= Len(prefix) /\ SubSeq(t, 1, Len(prefix)) = prefix

\* re.IGNORECASE: the pattern character p matches the character c
SameLetter_CaseSensitive(p, c) == p = c

SameLetter(p, c) == Lower(p) = Lower(c)

\* re.match(f"{strategy} ?[:=] ?", locator, flags=re.IGNORECASE), lines 162 and 170:
\* match.end() when the pattern matches at the start of locator, 0 when it does not
MatchEnd(strategy, locator) ==
    LET word  == Text(strategy)
        n     == Len(word)
        named == /\ Len(locator) >= n
                 /\ \A i \in 1..n : SameLetter(word[i], locator[i])
        k     == IF Len(locator) > n /\ locator[n + 1] = " " THEN n + 1 ELSE n
    IN  IF named /\ Len(locator) > k /\ locator[k + 1] \in {":", "="}
        THEN IF Len(locator) > k + 1 /\ locator[k + 2] = " " THEN k + 2 ELSE k + 1
        ELSE 0

\* line 161: the illegal strategies
IllegalLocators_None == <<>>

IllegalLocators == <<"dom">>

\* the keys of LOCATORS in declaration order, lines 118-135
LOCATORS ==
    <<"id", "name", "identifier", "class", "tag", "xpath", "css", "jquery", "sizzle",
      "link", "partial link", "text", "data", "element", "default", "nth">>

\* loc.split(":"): the pieces between the colons
RECURSIVE Split(_, _)
Split(loc, piece) ==
    IF loc = <<>> THEN <<piece>>
    ELSE IF Head(loc) = ":" THEN <<piece>> \o Split(Tail(loc), <<>>)
    ELSE Split(Tail(loc), Append(piece, Head(loc)))

\* _data_parser, lines 108-116: [ok, native]; ok is FALSE when ValueError is raised
data_parser_AlwaysMalformed(loc) == [ok |-> FALSE, native |-> <<>>]

data_parser(loc) ==
    LET parts == Split(loc, <<>>)
    IN  IF Len(parts) # 2 \/ <<>> \in {parts[1], parts[2]}
        THEN [ok |-> FALSE, native |-> <<>>]
        ELSE [ok |-> TRUE,
              native |-> Text("//*[@data-") \o parts[1] \o Text("=\"") \o parts[2]
                         \o Text("\"]")]

\* the values of LOCATORS, lines 119-134
selector(strategy, loc) ==
    CASE strategy = "id"           -> [ok |-> TRUE, native |-> Text("id=") \o loc]
      [] strategy = "name"         ->
            [ok |-> TRUE, native |-> Text("css=[name=") \o loc \o Text("]")]
      [] strategy = "identifier"   ->
            [ok |-> TRUE, native |-> Text("css=[id=") \o loc \o Text("], [name=") \o loc
                                     \o Text("]")]
      [] strategy = "class"        -> [ok |-> TRUE, native |-> Text("css=.") \o loc]
      [] strategy = "tag"          -> [ok |-> TRUE, native |-> Text("css=") \o loc]
      [] strategy = "xpath"        -> [ok |-> TRUE, native |-> Text("xpath=") \o loc]
      [] strategy = "css"          -> [ok |-> TRUE, native |-> Text("css=") \o loc]
      [] strategy = "jquery"       -> [ok |-> TRUE, native |-> Text("css=") \o loc]
      [] strategy = "sizzle"       -> [ok |-> TRUE, native |-> Text("css=") \o loc]
      [] strategy = "link"         ->
            [ok |-> TRUE, native |-> Text("css=a >> text=\"") \o loc \o Text("\"")]
      [] strategy = "partial link" ->
            [ok |-> TRUE, native |-> Text("css=a >> text=") \o loc]
      [] strategy = "text"         -> [ok |-> TRUE, native |-> Text("text=") \o loc]
      [] strategy = "data"         -> data_parser(loc)
      [] strategy = "element"      -> [ok |-> TRUE, native |-> Text("element=") \o loc]
      [] strategy = "default"      ->
            [ok |-> TRUE, native |-> Text("css=[id=") \o loc \o Text("], [name=") \o loc
                                     \o Text("]")]
      [] strategy = "nth"          -> [ok |-> TRUE, native |-> Text("nth=") \o loc]

\* re.match(r"\(*//", locator), line 174
RECURSIVE IsXPath(_)
IsXPath_SlashOrParen(locator) ==
    locator # <<>> /\ Head(locator) \in {"/", "("}

IsXPath(locator) ==
    IF locator = <<>> THEN FALSE
    ELSE IF Head(locator) = "(" THEN IsXPath(Tail(locator))
    ELSE StartsWith(locator, <<"/", "/">>)

\* line 176
DefaultLocator_AsStrategy(locator) ==
    Text("css=[id=") \o locator \o Text("], [name=") \o locator \o Text("]")

DefaultLocator(locator) ==
    Text("[id='") \o locator \o Text("'], [name='") \o locator \o Text("']")

\* get_single_locator, lines 159-176: the branch taken (the strategy matched, "" when
\* none), the remainder handed to the builder, and the selector or the ValueError
get_single_locator_result(locator) ==
    LET illegal == {i \in 1..Len(IllegalLocators) :
                        MatchEnd(IllegalLocators[i], locator) > 0}
        matched == {i \in 1..Len(LOCATORS) : MatchEnd(LOCATORS[i], locator) > 0}
    IN  IF illegal # {}
        THEN [out |-> "ValueError", strategy |-> IllegalLocators[CHOOSE i \in illegal :
                                                     \A j \in illegal : i <= j],
              loc |-> <<>>, native |-> <<>>]
        ELSE IF matched # {}
        THEN LET first    == CHOOSE i \in matched : \A j \in matched : i <= j
                 strategy == LOCATORS[first]
                 loc      == From(locator, MatchEnd(strategy, locator))
                 built    == selector(strategy, loc)
             IN  [out |-> IF built.ok THEN "selector" ELSE "ValueError",
                  strategy |-> strategy, loc |-> loc, native |-> built.native]
        ELSE IF IsXPath(locator)
        THEN [out |-> "selector", strategy |-> "", loc |-> locator,
              native |-> Text("xpath=") \o locator]
        ELSE [out |-> "selector", strategy |-> "", loc |-> locator,
              native |-> DefaultLocator(locator)]

\* `.` of a regular expression matches every character but the line break
Dot(c) == c # "\n"

\* line 181: match.group(1) == match.group(2)
SameGroups_NotCompared(group1, group2) == TRUE

SameGroups(group1, group2) == group1 = group2

\* is_default, lines 178-183: re.fullmatch(r"\[id='(.*)'], \[name='(.*)']", locator);
\* the first group is greedy, so it is the longest one that lets the rest match
is_default_result(locator) ==
    LET open  == Text("[id='")
        mid   == Text("'], [name='")
        close == Text("']")
        fixed == Len(open) + Len(mid) + Len(close)
        group1(k) == SubSeq(locator, Len(open) + 1, Len(open) + k)
        group2(k) == SubSeq(locator, Len(open) + k + Len(mid) + 1,
                            Len(locator) - Len(close))
        fits  == {k \in 0..(Len(locator) - fixed) :
                    /\ StartsWith(locator, open)
                    /\ StartsWith(From(locator, Len(open) + k), mid)
                    /\ From(locator, Len(locator) - Len(close)) = close
                    /\ \A i \in 1..Len(group1(k)) : Dot(group1(k)[i])
                    /\ \A i \in 1..Len(group2(k)) : Dot(group2(k)[i])}
    IN  IF fits = {} THEN NoText
        ELSE LET k == CHOOSE x \in fits : \A y \in fits : y <= x
             IN  IF SameGroups(group1(k), group2(k)) THEN Some(group1(k)) ELSE NoText

\* the locators callers write: a word in some letter-case (a strategy name, an illegal
\* one, or none), a separator with or without spaces (or none), and a remainder
RECURSIVE AllCases(_)
AllCases(word) ==
    IF word = <<>> THEN {<<>>}
    ELSE {<<c>> \o r : c \in {Lower(Head(word)), Upper(Head(word))},
                       r \in AllCases(Tail(word))}

UpperCase(word) == [i \in 1..Len(word) |-> Upper(word[i])]

Words ==
    AllCases(Text("dom"))
        \cup {Text(LOCATORS[i]) : i \in 1..Len(LOCATORS)}
        \cup {UpperCase(Text(LOCATORS[i])) : i \in 1..Len(LOCATORS)}

Separators == {<<>>, <<"=">>, <<":">>, <<" ", "=", " ">>}

\* characters of the text after a word, and of a locator written without one
RemainderChars == {"f", ":", "/"}

LocatorChars == {"f", ":", "/", "(", "\n"}

Texts(chars) == UNION {[1..n -> chars] : n \in 0..MaxRemainder}

\* get_single_locator, lines 159-176, applied to word + sep + rest
get_single_locator(word, sep, rest) ==
    /\ tr.op = ""
    /\ \E r \in {get_single_locator_result(word \o sep \o rest)} :
          tr' = [op |-> "get_single_locator", word |-> word, sep |-> sep, rest |-> rest,
                 locator |-> word \o sep \o rest, out |-> r.out, strategy |-> r.strategy,
                 loc |-> r.loc, native |-> r.native, default |-> NoText]
    /\ UNCHANGED <<tables, browser_index, issued, issued_since, eng, ret, sw, now, wu>>

\* is_default, lines 178-183, applied to the selector get_single_locator returned
is_default ==
    /\ tr.op = "get_single_locator"
    /\ tr.out = "selector"
    /\ tr' = [tr EXCEPT !.op = "is_default", !.default = is_default_result(tr.native)]
    /\ UNCHANGED <<tables, browser_index, issued, issued_since, eng, ret, sw, now, wu>>

NextTranslate ==
    \/ /\ tr.op = ""
       /\ \E word \in Words, sep \in Separators, rest \in Texts(RemainderChars) :
             get_single_locator(word, sep, rest)
    \/ /\ tr.op = ""
       /\ \E rest \in Texts(LocatorChars) : get_single_locator(<<>>, <<>>, rest)
    \/ is_default

SpecTranslate == Init /\ [][NextTranslate]_vars

-----------------------------------------------------------------------------
(* Chained locators and the locators of a role: WebElement.from_any,          *)
(* from_string and from_list, lines 138-157, and get_button_locator ..       *)
(* get_list_locator, lines 624-697                                           *)

\* the separator of a chain, lines 146-147 and 155-156
ChainSeparator == <<" ", ">", ">", " ">>

\* locator.split(" >> "): the pieces between the occurrences of the separator, found
\* from the left
RECURSIVE SplitChain(_, _)
SplitChain(locator, piece) ==
    IF locator = <<>> THEN <<piece>>
    ELSE IF StartsWith(locator, ChainSeparator)
    THEN <<piece>> \o SplitChain(From(locator, Len(ChainSeparator)), <<>>)
    ELSE SplitChain(Tail(locator), Append(piece, Head(locator)))

\* " >> ".join(parts)
RECURSIVE JoinChain(_)
JoinChain_Glued(parts) ==
    IF parts = <<>> THEN <<>>
    ELSE IF Len(parts) = 1 THEN parts[1]
    ELSE parts[1] \o <<">", ">">> \o JoinChain(Tail(parts))

JoinChain(parts) ==
    IF parts = <<>> THEN <<>>
    ELSE IF Len(parts) = 1 THEN parts[1]
    ELSE parts[1] \o ChainSeparator \o JoinChain(Tail(parts))

\* the generators of lines 147 and 155, run by " >> ".join: the first translation that
\* raises ends it; each is the sequence of the translations' results
from_strings(each) ==
    LET raised == {i \in 1..Len(each) : each[i].out # "selector"}
    IN  IF raised # {}
        THEN [out |-> each[CHOOSE i \in raised : \A j \in raised : i <= j].out,
              natives |-> <<>>]
        ELSE [out |-> "selector", natives |-> [i \in 1..Len(each) |-> each[i].native]]

\* from_string, lines 144-151: [out, native, original]; out is "ValueError" when the
\* translation of a segment raises
RECURSIVE from_string_result(_)
from_string_result(locator) ==
    LET parts == SplitChain(locator, <<>>)
    IN  IF Len(parts) > 1
        THEN LET each == from_strings([i \in 1..Len(parts) |->
                                          from_string_result(parts[i])])
             IN  IF each.out # "selector"
                 THEN [out |-> each.out, native |-> <<>>, original |-> <<>>]
                 ELSE [out |-> "selector", native |-> JoinChain(each.natives),
                       original |-> locator]
        ELSE LET single == get_single_locator_result(locator)
             IN  IF single.out # "selector"
                 THEN [out |-> single.out, native |-> <<>>, original |-> <<>>]
                 ELSE [out |-> "selector", native |-> single.native, original |-> locator]

\* from_list, lines 153-157
from_list_result(locator) ==
    LET each == from_strings([i \in 1..Len(locator) |-> from_string_result(locator[i])])
    IN  IF each.out # "selector"
        THEN [out |-> each.out, native |-> <<>>, original |-> <<>>]
        ELSE [out |-> "selector", native |-> JoinChain(each.natives),
              original |-> JoinChain(locator)]

\* the expressions of lines 629-639, 648-654, 662-667, 678-683 and 691-695, in
\* pieces; the piece "{loc}" stands for the place of the value
RoleTemplate(role) ==
    CASE role = "button" ->
           <<<<"x", "p", "a", "t", "h", "=", "/", "/", "b", "u", "t", "t", "o", "n",
               "[", "@", "i", "d", "=", "\"">>,
             <<"{loc}">>,
             <<"\"", "]", "|", "/", "/", "b", "u", "t", "t", "o", "n", "[", "@", "n",
               "a", "m", "e", "=", "\"">>,
             <<"{loc}">>,
             <<"\"", "]", "|", "/", "/", "b", "u", "t", "t", "o", "n", "[", "@", "v",
               "a", "l", "u", "e", "=", "\"">>,
             <<"{loc}">>,
             <<"\"", "]", "|", "/", "/", "b", "u", "t", "t", "o", "n", "[", ".", "=",
               "\"">>,
             <<"{loc}">>,
             <<"\"", "]", "|", "/", "/", "i", "n", "p", "u", "t", "[", "@", "i", "d",
               "=", "\"">>,
             <<"{loc}">>,
             <<"\"", "]", "|", "/", "/", "i", "n", "p", "u", "t", "[", "@", "n", "a",
               "m", "e", "=", "\"">>,
             <<"{loc}">>,
             <<"\"", "]", "|", "/", "/", "i", "n", "p", "u", "t", "[", "@", "v", "a",
               "l", "u", "e", "=", "\"">>,
             <<"{loc}">>,
             <<"\"", "]", "|", "/", "/", "i", "n", "p", "u", "t", "[", "@", "s", "r",
               "c", "=", "\"">>,
             <<"{loc}">>,
             <<"\"", "]">>>>
      [] role = "input" ->
           <<<<"x", "p", "a", "t", "h", "=", "/", "/", "i", "n", "p", "u", "t", "[",
               "@", "i", "d", "=", "\"">>,
             <<"{loc}">>,
             <<"\"", "]", "|", "/", "/", "i", "n", "p", "u", "t", "[", "@", "n", "a",
               "m", "e", "=", "\"">>,
             <<"{loc}">>,
             <<"\"", "]", "|", "/", "/", "i", "n", "p", "u", "t", "[", "@", "v", "a",
               "l", "u", "e", "=", "\"">>,
             <<"{loc}">>,
             <<"\"", "]", "|", "/", "/", "i", "n", "p", "u", "t", "[", "@", "s", "r",
               "c", "=", "\"">>,
             <<"{loc}">>,
             <<"\"", "]">>>>
      [] role = "link" ->
           <<<<"x", "p", "a", "t", "h", "=", "/", "/", "a", "[", "@", "i", "d", "=",
               "\"">>,
             <<"{loc}">>,
             <<"\"", "]", " ", "|", " ", "/", "/", "a", "[", "@", "n", "a", "m", "e",
               "=", "\"">>,
             <<"{loc}">>,
             <<"\"", "]", " ", "|", " ", "/", "/", "a", "[", "@", "h", "r", "e", "f",
               "=", "\"">>,
             <<"{loc}">>,
             <<"\"", "]", " ", "|", " ", "/", "/", "a", "[", "n", "o", "r", "m", "a",
               "l", "i", "z", "e", "-", "s", "p", "a", "c", "e", "(", "d", "e", "s",
               "c", "e", "n", "d", "a", "n", "t", "-", "o", "r", "-", "s", "e", "l",
               "f", ":", ":", "t", "e", "x", "t", "(", ")", ")", "=", "\"">>,
             <<"{loc}">>,
             <<"\"", "]">>>>
      [] role = "image" ->
           <<<<"x", "p", "a", "t", "h", "=", "/", "/", "i", "m", "g", "[", "@", "i",
               "d", "=", "\"">>,
             <<"{loc}">>,
             <<"\"", "]", " ", "|", " ", "/", "/", "i", "m", "g", "[", "@", "n", "a",
               "m", "e", "=", "\"">>,
             <<"{loc}">>,
             <<"\"", "]", " ", "|", " ", "/", "/", "i", "m", "g", "[", "@", "s", "r",
               "c", "=", "\"">>,
             <<"{loc}">>,
             <<"\"", "]", " ", "|", " ", "/", "/", "i", "m", "g", "[", "@", "a", "l",
               "t", "=", "\"">>,
             <<"{loc}">>,
             <<"\"", "]">>>>
      [] role = "list" ->
           <<<<"x", "p", "a", "t", "h", "=", "/", "/", "s", "e", "l", "e", "c", "t",
               "[", "@", "i", "d", "=", "\"">>,
             <<"{loc}">>,
             <<"\"", "]", " ", "|", " ", "/", "/", "s", "e", "l", "e", "c", "t", "[",
               "@", "n", "a", "m", "e", "=", "\"">>,
             <<"{loc}">>,
             <<"\"", "]", " ", "|", " ", "/", "/", "s", "e", "l", "e", "c", "t", "[",
               "@", "v", "a", "l", "u", "e", "=", "\"">>,
             <<"{loc}">>,
             <<"\"", "]">>>>

Place == <<"{loc}">>

\* str.format(loc=loc) and the f-strings: the value is put at every "{loc}"
RECURSIVE Format(_, _)
Format(template, loc) ==
    IF template = <<>> THEN <<>>
    ELSE (IF Head(template) = Place THEN loc ELSE Head(template))
             \o Format(Tail(template), loc)

\* xpath.replace('"', "'"), line 669
SingleQuoted(template) ==
    [i \in 1..Len(template) |->
        [j \in 1..Len(template[i]) |->
            IF template[i][j] = "\"" THEN "'" ELSE template[i][j]]]

\* loc.replace('"', '\\"'), lines 628 and 647
RECURSIVE Escaped(_)
Escaped(loc) ==
    IF loc = <<>> THEN <<>>
    ELSE (IF Head(loc) = "\"" THEN <<"\\", "\"">> ELSE <<Head(loc)>>) \o Escaped(Tail(loc))

\* the expression each role builds for the value loc
role_expression(role, loc) ==
    CASE role \in {"button", "input"} -> Format(RoleTemplate(role), Escaped(loc))
      [] role = "link" ->
            \* lines 668-670
            Format(IF \E i \in 1..Len(loc) : loc[i] = "\""
                   THEN SingleQuoted(RoleTemplate(role))
                   ELSE RoleTemplate(role), loc)
      [] OTHER -> Format(RoleTemplate(role), loc)

\* `if loc:` of lines 627, 646, 661, 677 and 690: None and "" are false
role_rewrites(loc) == loc # NoText /\ loc[1] # <<>>

\* get_button_locator .. get_list_locator: [native, original] of the locator returned
get_role_locator_result(role, native, original) ==
    LET loc == is_default_result(native)
    IN  IF role_rewrites(loc)
        THEN [native |-> role_expression(role, loc[1]), original |-> original]
        ELSE [native |-> native, original |-> original]

Roles == {"button", "input", "link", "image", "list"}

\* the segments callers chain
Segments ==
    {<<"f">>,
     <<"g", "\"">>,
     <<"I", "D", ":", "f">>,
     <<"c", "s", "s", "=", "f">>,
     <<"/", "/", "f">>,
     <<"l", "i", "n", "k", "=", "f">>,
     <<"d", "o", "m", "=", "f">>}

Chains == UNION {[1..n -> Segments] : n \in 1..MaxSegments}

\* the text of a chain: its segments with " >> " between them
RECURSIVE ChainText(_)
ChainText(segments) ==
    IF Len(segments) = 0 THEN <<>>
    ELSE IF Len(segments) = 1 THEN segments[1]
    ELSE ChainText(SubSeq(segments, 1, Len(segments) - 1)) \o <<" ", ">", ">", " ">>
             \o segments[Len(segments)]

\* from_string, lines 144-151, applied to the segments written as one text
from_string(segments) ==
    /\ tr.op = ""
    /\ \E r \in {from_string_result(ChainText(segments))} :
          tr' = [op |-> "from_string", segments |-> segments,
                 locator |-> ChainText(segments), out |-> r.out, native |-> r.native,
                 original |-> r.original, role |-> "", resolved |-> <<>>,
                 resolved_original |-> <<>>]
    /\ UNCHANGED <<tables, browser_index, issued, issued_since, eng, ret, sw, now, wu>>

\* from_list, lines 153-157 (from_any, 138-142, with a list)
from_list(segments) ==
    /\ tr.op = ""
    /\ \E r \in {from_list_result(segments)} :
          tr' = [op |-> "from_list", segments |-> segments,
                 locator |-> ChainText(segments), out |-> r.out, native |-> r.native,
                 original |-> r.original, role |-> "", resolved |-> <<>>,
                 resolved_original |-> <<>>]
    /\ UNCHANGED <<tables, browser_index, issued, issued_since, eng, ret, sw, now, wu>>

\* get_button_locator .. get_list_locator applied to the WebElement just made
get_role_locator(role) ==
    /\ tr.op \in {"from_string", "from_list"}
    /\ tr.out = "selector"
    /\ \E r \in {get_role_locator_result(role, tr.native, tr.original)} :
          tr' = [tr EXCEPT !.op = "get_role_locator", !.role = role,
                           !.resolved = r.native, !.resolved_original = r.original]
    /\ UNCHANGED <<tables, browser_index, issued, issued_since, eng, ret, sw, now, wu>>

NextChain ==
    \/ /\ tr.op = ""
       /\ \E segments \in Chains : from_string(segments)
    \/ /\ tr.op = ""
       /\ \E segments \in Chains : from_list(segments)
    \/ \E role \in Roles : get_role_locator(role)

SpecChain == Init /\ [][NextChain]_vars

-----------------------------------------------------------------------------
(* Vocabulary of the properties *)

\* the step just taken was open_browser making a new handle
OpenedNew == ret'.op = "open_browser" /\ ret'.path = "new"

\* identifier id is bound to a live handle: it is the text of a key of the id table,
\* or an alias whose syntheticId is a key of the id table
Bound(indexes, aliases, id) ==
    \/ ParseInt(id) \in DOMAIN indexes
    \/ id \in DOMAIN aliases /\ aliases[id] \in DOMAIN indexes

NoDuplicates(s) == \A i, j \in 1..Len(s) : i # j => s[i] # s[j]

\* the three-way reconciliation of catalog list C against the reported list E:
\* keep what is still reported in C's order, then what is new in E's order
Reconcile(C, E) ==
    SelectSeq(C, LAMBDA x : x \in Range(E)) \o SelectSeq(E, LAMBDA x : x \notin Range(C))

\* every page id the engine has, over all contexts
EnginePages(e) == UNION {Range(e.pages[c]) : c \in DOMAIN e.pages}

-----------------------------------------------------------------------------
(* C1 *)

\* C1 as stated: every syntheticId open_browser returns for a new handle differs from
\* every id it has returned before, whatever open/close/close_all calls came between
\* (so no id of a closed handle comes back).
C1_IdsNeverReused == [][OpenedNew => ret'.idx \notin issued]_vars

\* C1, amended: the ids open_browser returns for new handles after the latest
\* close_all_browsers (which close_browser runs too when no context is open) are
\* strictly increasing, hence pairwise distinct, also across close_browser calls.
C1_IdsIncreaseSinceCloseAll ==
    [][OpenedNew => \A i \in issued_since : ret'.idx > i]_vars

\* a second handle was opened after the first one was closed, and got a new id
C1_Witness ==
    /\ ret.op = "open_browser" /\ ret.path = "new" /\ ret.idx = 2
    /\ 1 \in issued_since /\ 1 \notin DOMAIN context_indexes

-----------------------------------------------------------------------------
(* C2 *)

-----------------------------------------------------------------------------
(* C3, C4 *)

\* C3: one _get_current_page_ids call leaves, and returns, Reconcile(C, E) for the
\* prior catalog list C of the active context and the reported list E.
C3_ThreeWayReconcile ==
    [][(ret'.op = "get_page_ids" /\ ret'.path = "current" /\ ret'.exc = "")
         => LET C == context_page_catalog[eng.active]
                E == eng.pages[eng.active]
            IN  /\ ret'.pages = Reconcile(C, E)
                /\ context_page_catalog'[eng.active] = Reconcile(C, E)]_vars

\* C4: two _get_current_page_ids calls in a row (so nothing changed in the engine in
\* between) return the same list, and the second leaves the catalog as it was.
C4_ReconcileIdempotent ==
    [][(/\ ret.op = "get_page_ids" /\ ret.path = "current" /\ ret.exc = ""
        /\ ret'.op = "get_page_ids" /\ ret'.path = "current" /\ ret'.exc = "")
         => /\ ret'.pages = ret.pages
            /\ context_page_catalog' = context_page_catalog]_vars

-----------------------------------------------------------------------------
(* C5 *)

\* C5: no page catalog lists a page id twice.
C5_NoDuplicatePageIds ==
    \A c \in DOMAIN context_page_catalog : NoDuplicates(context_page_catalog[c])

\* a reconciliation appended a page to a catalog that held one already
C5_Witness ==
    /\ ret.op = "get_page_ids" /\ ret.exc = "" /\ Len(ret.pages) >= 2
    /\ \E c \in DOMAIN context_page_catalog : Len(context_page_catalog[c]) >= 2

-----------------------------------------------------------------------------
(* C6 *)

\* C6: _get_all_page_ids reconciles every context's catalog and returns the lists in
\* catalog order: exactly the pages the engine reports, each once.
C6_AllPagesExact ==
    [][(ret'.op = "get_page_ids" /\ ret'.path = "all" /\ ret'.exc = "")
         => /\ \A c \in DOMAIN context_page_catalog :
                  context_page_catalog'[c] = Reconcile(context_page_catalog[c], eng.pages[c])
            /\ ret'.pages = Flatten(context_page_catalog', catalog_keys)
            /\ Range(ret'.pages) = EnginePages(eng)
            /\ NoDuplicates(ret'.pages)]_vars

-----------------------------------------------------------------------------
(* C7 *)

\* C7: _get_page_ids for an index or alias leaves the engine's active context as it
\* was, when the reconciliation returns and when it raises.
C7_ActiveContextRestored ==
    [][(ret'.op = "get_page_ids" /\ ret'.path = "handle") => eng'.active = eng.active]_vars

\* the pages of a context other than the active one were asked for and the
\* enumeration raised
C7_Witness ==
    /\ ret.op = "get_page_ids" /\ ret.path = "handle" /\ ret.exc = "EngineError"
    /\ ret.idx # eng.active

-----------------------------------------------------------------------------
(* C8 *)

\* C8: switch_browser and _get_page_ids given an index or alias that is not bound to a
\* live handle raise WindowNotFound naming it and change neither the tables nor the
\* engine.
C8_LookupMissRaises ==
    [][(/\ ret'.op \in {"switch_browser", "get_page_ids"}
        /\ ret'.arg \in Identifiers
        /\ ~Bound(context_indexes, context_aliases, ret'.arg))
         => /\ ret'.exc = "WindowNotFound" /\ ret'.names = ret'.arg
            /\ UNCHANGED <<tables, browser_index, eng>>]_vars

\* the index of a closed handle was looked up while another handle was live
C8_Witness ==
    /\ ret.exc = "WindowNotFound" /\ ret.names = "1"
    /\ 1 \in issued_since /\ DOMAIN context_indexes = {2}

-----------------------------------------------------------------------------
(* C9 *)

\* C9: a WindowNotFound that comes from a lookup miss is raised at once: when
\* switch_window ends with it, the tables were looked up once and the call never slept.
C9_LookupMissNotRetried ==
    (ret.op = "switch_window" /\ ret.path = "miss" /\ ret.exc = "WindowNotFound")
        => (sw.lookups = 1 /\ sw.sleeps = 0)

-----------------------------------------------------------------------------
(* C10 *)

-----------------------------------------------------------------------------
(* The polling wait *)

\* the evaluation that ran last in the call raised / the call was given a custom error
FinalRaised == wu.last.kind = "raise"

Substituted(template, timeout) ==
    [i \in 1..Len(template) |->
        IF template[i] = "<TIMEOUT>" THEN secs_to_timestr(timeout) ELSE template[i]]

FallbackMessage ==
    IF wu.custom_error # NoText THEN wu.custom_error[1]
    ELSE Substituted(wu.template, wu.timeout)

\* C11 (as stated): when _wait_until times out, the message of the assertion is the
\* message of the exception the condition raised in the final poll if that poll raised;
\* otherwise the caller's custom error verbatim if one was given; otherwise the error
\* template with <TIMEOUT> replaced by the rendered timeout.
C11_MessagePriority ==
    wu.out = "AssertionError" =>
        wu.msg = IF FinalRaised THEN wu.last.msg ELSE FallbackMessage

\* C11 (amended): the message is that of the exception raised in the final poll if that
\* poll raised with a non-empty message; otherwise (the final poll returned false, raised
\* with an empty message, or no poll ran) the custom error verbatim if one was given,
\* otherwise the template with every <TIMEOUT> replaced by the rendered timeout.
C11_MessagePriorityNonEmpty ==
    wu.out = "AssertionError" =>
        wu.msg = IF FinalRaised /\ wu.last.msg # <<>> THEN wu.last.msg
                 ELSE FallbackMessage

\* a timeout whose final poll raised "not ready" although a custom error was given and
\* an earlier poll had returned false
C11_Witness ==
    /\ wu.out = "AssertionError"
    /\ wu.custom_error = Some(<<"custom ", "<TIMEOUT>">>)
    /\ wu.evals = 3 /\ wu.raises = 1
    /\ wu.last = [kind |-> "raise", msg |-> <<"not ready">>]
    /\ wu.msg = <<"not ready">>

\* C12: an exception raised by the condition counts as "not yet satisfied" and never
\* propagates: an evaluation that raises leaves the call running (it goes to sleep),
\* and an evaluation that returns true ends the call normally however many of the
\* evaluations before it raised.
C12_ExceptionIsPending ==
    [][wu'.evals = wu.evals + 1 =>
          /\ wu'.last.kind = "raise" => (wu'.pc = "sleep" /\ wu'.out = "")
          /\ wu'.last.kind = "true"  => (wu'.pc = "idle" /\ wu'.out = "returned")
          /\ wu'.out # "Exception"]_vars

\* the condition raised on its first two evaluations, returned true on the third
C12_Witness ==
    wu.out = "returned" /\ wu.raises = 2 /\ wu.evals = 3

\* C13: when the condition returns true the call returns right after that evaluation,
\* with no further sleep (the clock and the sleep count are as they were) and no further
\* evaluation; a condition that is true on the first evaluation ends the call after
\* zero sleeps.
C13_ReturnsAtOnce ==
    [][/\ (wu'.evals = wu.evals + 1 /\ wu'.last.kind = "true") =>
              /\ wu'.pc = "idle" /\ wu'.out = "returned"
              /\ wu'.sleeps = wu.sleeps /\ wu'.clock = wu.clock
              /\ wu'.evals = 1 => wu'.sleeps = 0
       /\ (wu.pc = "idle" /\ wu.out = "returned" /\ wu'.out = "returned") =>
              (wu'.evals = wu.evals /\ wu'.sleeps = wu.sleeps)]_vars

\* a call with a positive timeout whose first evaluation was true
C13_Witness ==
    /\ wu.out = "returned" /\ wu.timeout = 3
    /\ wu.evals = 1 /\ wu.sleeps = 0 /\ wu.clock = 0

\* C14: the timeout assertion is never raised before the deadline: when it is raised
\* the clock is at or past call start + timeout (the call starts at clock 0).
C14_NotBeforeDeadline ==
    wu.out = "AssertionError" => wu.clock >= wu.timeout

\* a timeout raised exactly at the deadline of a positive timeout, after three polls
C14_Witness ==
    /\ wu.out = "AssertionError" /\ wu.timeout = 3
    /\ wu.clock = 3 /\ wu.evals = 3

\* C15: every _wait_until call terminates, by returning or by raising the timeout
\* assertion, when each evaluation of the condition ends and each sleep ends; it returns
\* only if an evaluation was true, so a condition that is never true makes it raise.
C15_Terminates ==
    /\ (wu.pc # "idle") ~> (wu.pc = "idle" /\ wu.out \in {"returned", "AssertionError"})
    /\ [](wu.out = "returned" => wu.last.kind = "true")

\* a call whose condition was never true ended with the assertion after three polls
C15_Witness ==
    /\ wu.pc = "idle" /\ wu.out = "AssertionError"
    /\ wu.evals = 3 /\ wu.sleeps = 3 /\ wu.last.kind = "false"

-----------------------------------------------------------------------------
(* Locator translation *)

LowerCase(word) == [i \in 1..Len(word) |-> Lower(word[i])]

Translated == tr.op \in {"get_single_locator", "is_default"}

\* the caller wrote the name of a strategy of the table, in some letter-case, and a separator
WrittenStrategies ==
    {i \in 1..Len(LOCATORS) : LowerCase(tr.word) = Text(LOCATORS[i]) /\ tr.sep # <<>>}

\* the id-or-name selector that holds the text twice
IdOrName(text) ==
    Text("[id='") \o text \o Text("'], [name='") \o text \o Text("']")

\* the text is zero or more "(" followed by "//"
ParensThenSlashes(text) ==
    \E k \in 0..Len(text) :
        /\ \A i \in 1..k : text[i] = "("
        /\ Len(text) >= k + 2 /\ text[k + 1] = "/" /\ text[k + 2] = "/"

\* the text is name:value with one colon and a non-empty name and value
NameValue(text) ==
    /\ Cardinality({i \in 1..Len(text) : text[i] = ":"}) = 1
    /\ text # <<>> /\ text[1] # ":" /\ text[Len(text)] # ":"

\* no strategy separator, quote, bracket, slash, parenthesis or chain separator
NoSpecial(text) ==
    \A i \in 1..Len(text) :
        text[i] \notin {":", "=", "'", "\"", "[", "]", "/", "(", ")", ">"}

\* C16: "dom" written in any letter-case and followed by ":" or "=" is rejected from the
\* deny-list, before the table of strategies is consulted, whatever the remainder:
\* get_single_locator raises ValueError and returns no selector.
C16_IllegalStrategyRaises ==
    (Translated /\ LowerCase(tr.word) = Text("dom") /\ tr.sep # <<>>)
        => (tr.out = "ValueError" /\ tr.strategy = "dom" /\ tr.native = <<>>)

\* "dOm:f" was rejected
C16_Witness ==
    /\ tr.op = "get_single_locator"
    /\ tr.locator = <<"d", "O", "m", ":", "f">>
    /\ tr.out = "ValueError" /\ tr.strategy = "dom"

\* C17: for every strategy of the table and every remainder, the outcome does not depend
\* on the letter-case in which the strategy is written, and a locator that carries a
\* strategy prefix is built by the builder of that strategy, never by the id-or-name
\* fallback.
C17_PrefixCaseInsensitive ==
    Translated =>
        \A i \in WrittenStrategies :
            /\ tr.strategy = LOCATORS[i]
            /\ tr.loc = tr.rest
            /\ tr.out = "selector" => tr.native = selector(LOCATORS[i], tr.rest).native
            /\ LET lower == get_single_locator_result(LowerCase(tr.word) \o tr.sep \o tr.rest)
               IN  tr.out = lower.out /\ tr.native = lower.native

\* "ID=f" gave the selector of "id=f"
C17_Witness ==
    /\ tr.op = "get_single_locator"
    /\ tr.locator = <<"I", "D", "=", "f">>
    /\ tr.out = "selector" /\ tr.native = <<"i", "d", "=", "f">>

\* C18 (as stated): when no strategy prefix matches, the locator is wrapped as an XPath
\* selector whenever it starts with "/" or "(", and otherwise becomes the id-or-name
\* selector that holds the text twice.
C18_XPathBySlashOrParen ==
    (tr.op = "get_single_locator" /\ tr.strategy = "") =>
        /\ tr.out = "selector"
        /\ tr.native = IF tr.locator # <<>> /\ Head(tr.locator) \in {"/", "("}
                       THEN Text("xpath=") \o tr.locator
                       ELSE IdOrName(tr.locator)

\* C18 (amended): when no strategy prefix matches, the locator is wrapped as an XPath
\* selector whenever it starts with zero or more "(" followed by "//", and otherwise
\* becomes the id-or-name selector that holds the text twice.
C18_XPathByDoubleSlash ==
    (tr.op = "get_single_locator" /\ tr.strategy = "") =>
        /\ tr.out = "selector"
        /\ tr.native = IF ParensThenSlashes(tr.locator)
                       THEN Text("xpath=") \o tr.locator
                       ELSE IdOrName(tr.locator)

\* "(//" was wrapped as an XPath selector
C18_Witness ==
    /\ tr.op = "get_single_locator" /\ tr.strategy = ""
    /\ tr.locator = <<"(", "/", "/">>
    /\ tr.native = Text("xpath=") \o <<"(", "/", "/">>

\* C19 (as stated): for every non-empty locator whose prefix is not an illegal strategy,
\* get_single_locator returns a non-empty selector and raises no error.
C19_TotalButDenyList ==
    (Translated /\ tr.locator # <<>> /\ tr.strategy # "dom")
        => (tr.out = "selector" /\ tr.native # <<>>)

\* C19 (amended): for every non-empty locator whose prefix is not an illegal strategy,
\* get_single_locator returns a non-empty selector and raises no error, unless the
\* prefix is the data strategy and the remainder is not name:value (one colon, name and
\* value non-empty), in which case it raises ValueError.
C19_TotalButDenyListAndData ==
    (Translated /\ tr.locator # <<>> /\ tr.strategy # "dom") =>
        IF tr.strategy = "data" /\ ~NameValue(tr.loc)
        THEN tr.out = "ValueError"
        ELSE tr.out = "selector" /\ tr.native # <<>>

\* "DATA = f:f" gave a selector
C19_Witness ==
    /\ tr.op = "get_single_locator" /\ tr.strategy = "data"
    /\ tr.locator = <<"D", "A", "T", "A", " ", "=", " ", "f", ":", "f">>
    /\ tr.out = "selector"
    /\ tr.native = Text("//*[@data-") \o <<"f">> \o Text("=\"") \o <<"f">> \o Text("\"]")

\* C20 (as stated): for every non-empty text s with no special character,
\* is_default(get_single_locator(s)) is s.
C20_RoundTrip ==
    (tr.op = "is_default" /\ tr.locator # <<>> /\ NoSpecial(tr.locator))
        => tr.default = Some(tr.locator)

\* C20 (amended): for every non-empty text s with no special character and no line
\* break, is_default(get_single_locator(s)) is s.
C20_RoundTripOneLine ==
    (/\ tr.op = "is_default" /\ tr.locator # <<>> /\ NoSpecial(tr.locator)
     /\ \A i \in 1..Len(tr.locator) : tr.locator[i] # "\n")
        => tr.default = Some(tr.locator)

\* "XPATHff" came back from the id-or-name selector
C20_Witness ==
    /\ tr.op = "is_default"
    /\ tr.locator = <<"X", "P", "A", "T", "H", "f", "f">>
    /\ tr.native = IdOrName(tr.locator)
    /\ tr.default = Some(tr.locator)

-----------------------------------------------------------------------------
(* Chained locators and the locators of a role *)

\* the WebElement made is the id-or-name selector synthesized for its single segment
SynthesizedDefault ==
    Len(tr.segments) = 1 /\ tr.native = IdOrName(tr.segments[1])

CountOf(text, c) == Cardinality({i \in 1..Len(text) : text[i] = c})

\* the places for the value in the expression of a role
Places(role) ==
    Cardinality({i \in 1..Len(RoleTemplate(role)) : RoleTemplate(role)[i] = Place})

\* C21: for a locator that contains " >> ", or is given as a list of segments, the
\* native selector is the translations of the segments joined by " >> " in the same
\* order, and original_locator is the whole text as written (for a list, the segments
\* joined by " >> "); the translation raises when that of a segment raises.
C21_ChainedLocators ==
    (tr.op \in {"from_string", "from_list"} /\ Len(tr.segments) >= 2) =>
        LET each == [i \in 1..Len(tr.segments) |->
                        get_single_locator_result(tr.segments[i])]
        IN  IF \E i \in 1..Len(each) : each[i].out # "selector"
            THEN tr.out = "ValueError"
            ELSE /\ tr.out = "selector"
                 /\ tr.native = ChainText([i \in 1..Len(each) |-> each[i].native])
                 /\ tr.original = ChainText(tr.segments)

\* "ID:f >> link=f >> //f" became "id=f >> css=a >> text="f" >> xpath=//f"
C21_Witness ==
    /\ tr.op = "from_string"
    /\ tr.segments = <<<<"I", "D", ":", "f">>, <<"l", "i", "n", "k", "=", "f">>,
                       <<"/", "/", "f">>>>
    /\ tr.native = ChainText(<<Text("id=") \o <<"f">>,
                               Text("css=a >> text=\"") \o <<"f", "\"">>,
                               Text("xpath=") \o <<"/", "/", "f">>>>)
    /\ tr.original = tr.locator

\* C22: for every role, a locator whose native text is not the synthesized id-or-name
\* selector (an explicit strategy, an XPath, a chain) is returned as it is: native text
\* and original_locator are unchanged.
C22_RoleLeavesOthersAlone ==
    (tr.op = "get_role_locator" /\ ~SynthesizedDefault)
        => (tr.resolved = tr.native /\ tr.resolved_original = tr.original)

\* the chain "f >> f", made of two id-or-name selectors, went through get_button_locator
C22_Witness ==
    /\ tr.op = "get_role_locator" /\ tr.role = "button"
    /\ tr.segments = <<<<"f">>, <<"f">>>>
    /\ tr.native = ChainText(<<IdOrName(<<"f">>), IdOrName(<<"f">>)>>)
    /\ tr.resolved = tr.native

\* C23: for the roles button, image, link and list, when the value of a default locator
\* holds a double quote the expression built uses single-quoted literals throughout: its
\* only double quotes are those of the value, once for each place the value is put.
C23_SingleQuotedLiterals ==
    (/\ tr.op = "get_role_locator" /\ tr.role \in {"button", "image", "link", "list"}
     /\ SynthesizedDefault /\ CountOf(tr.segments[1], "\"") > 0)
        => CountOf(tr.resolved, "\"")
               = Places(tr.role) * CountOf(tr.segments[1], "\"")

\* C24: _wait_until evaluates the condition at least once before it raises the timeout
\* assertion, for every timeout, zero included: a call that ended with the assertion has
\* evaluated the condition.
C24_EvaluatedBeforeTimeout ==
    (wu.pc = "idle" /\ wu.out = "AssertionError") => wu.evals >= 1

-----------------------------------------------------------------------------
(* switch_window: C25, C26, C29 *)

\* the engine's active page
ActivePage(e) == IF e.active = None THEN None ELSE Get(e.page, e.active)

\* the strategy a locator text asks for
WrittenStrategy(locator) ==
    IF locator.strategy = "" THEN "default" ELSE locator.strategy

\* the first position of `pages` whose page matches, 0 when none does
FirstMatch(pages, strategy, value) ==
    LET hits == {i \in 1..Len(pages) : Matches(strategy, value, pages[i], i - 1)}
    IN  IF hits = {} THEN 0 ELSE CHOOSE i \in hits : \A j \in hits : i <= j

\* a pass of a running switch_window call ends the call here
SwEnds == sw.pc = "try" /\ sw'.pc = "idle" /\ ret'.op = "switch_window"

\* the pass that ends the call found a page for a string locator
SwMatched == SwEnds /\ sw.written.kind = "str" /\ ret'.path = "match" /\ ret'.exc = ""

\* C25: switch_window with a string locator selects the first matching page in the
\* order _get_page_ids(browser) returns: on return the active page is the earliest page
\* of that order that matches the text under the strategy the caller chose, and none
\* is selected that does not match.
C25_FirstMatchInCatalogOrder ==
    [][SwMatched =>
          LET pages == PageIds(sw.browser, FALSE).pages
              first == FirstMatch(pages, WrittenStrategy(sw.written), sw.written.value)
          IN  first # 0 /\ ActivePage(eng') = pages[first]]_vars

\* C26: switch_window called with a strategy prefix and a timeout only ever selects a
\* page whose attribute of that name equals the value, on the first pass and on every
\* retry.
C26_PrefixHoldsOnRetries ==
    [][(SwMatched /\ sw.written.strategy \in {"name", "title", "url"}) =>
          LET p == ActivePage(eng')
          IN  CASE sw.written.strategy = "name"  -> PageName(p) = sw.written.value
                [] sw.written.strategy = "title" -> PageTitle(p) = sw.written.value
                [] OTHER                         -> PageUrl(p) = sw.written.value]_vars

\* C29: switch_window with a string locator: when a page matches, the call returns the
\* id of the page that was active when it began and the active page is the page that
\* matched; when no page matches and WindowNotFound is raised in the end, the active
\* page is again the page that was active when the call began.
C29_ReturnsOldPageAndRestores ==
    [][/\ SwMatched =>
              LET pages == PageIds(sw.browser, FALSE).pages
                  first == FirstMatch(pages, WrittenStrategy(sw.locator), sw.locator.value)
              IN  /\ ret'.idx = sw.current_page_id
                  /\ first # 0 /\ ActivePage(eng') = pages[first]
       /\ (SwEnds /\ sw.written.kind = "str" /\ ret'.path = "nomatch"
              /\ ret'.exc = "WindowNotFound") =>
              ActivePage(eng') = sw.current_page_id]_vars

\* a call that slept found no page in a handle other than the active one, and the page
\* of the start is active again
C29_Witness ==
    /\ ret.op = "switch_window" /\ ret.path = "nomatch" /\ ret.exc = "WindowNotFound"
    /\ sw.sleeps > 0 /\ ret.arg = "ALL"
    /\ ActivePage(eng) = ret.idx /\ Cardinality(EnginePages(eng)) = 2

-----------------------------------------------------------------------------
(* C27, C28 *)

\* C27: the tables are consistent in every state reached by open_browser, close_browser,
\* close_all_browsers and switch_browser: every alias maps to an id of the id table, the
\* context ids of the id table are exactly the keys of the page catalog, and no two ids
\* map to the same context id.
C27_TablesConsistent ==
    /\ \A a \in DOMAIN context_aliases : context_aliases[a] \in DOMAIN context_indexes
    /\ {context_indexes[i] : i \in DOMAIN context_indexes} = DOMAIN context_page_catalog
    /\ \A i, j \in DOMAIN context_indexes :
           context_indexes[i] = context_indexes[j] => i = j

\* one of two handles was closed: the handle left has id 2 and an alias
C27_Witness ==
    /\ ret.op = "close_browser" /\ ret.path = "current" /\ ret.idx = 1
    /\ DOMAIN context_indexes = {2}
    /\ {context_aliases[a] : a \in DOMAIN context_aliases} = {2}
    /\ DOMAIN context_page_catalog = {context_indexes[2]}

\* C28: every key of the id table is smaller than the next value of the counter, so
\* an open_browser call that creates a context never returns an id that is bound to a
\* live handle at that moment.
C28_NewIdIsUnbound ==
    /\ [](\A k \in DOMAIN context_indexes : k < browser_index)
    /\ [][(ret'.op = "open_browser" /\ ret'.path = "new") =>
              /\ ret'.idx = browser_index
              /\ ret'.idx \notin DOMAIN context_indexes
              /\ DOMAIN context_indexes' = DOMAIN context_indexes \cup {ret'.idx}]_vars

\* after close_all_browsers the counter began again: id 1 was issued a second time,
\* to the second context the engine made
C28_Witness ==
    /\ ret.op = "open_browser" /\ ret.path = "new" /\ ret.idx = 1
    /\ context_indexes[1] = 2 /\ browser_index = 2

-----------------------------------------------------------------------------
(* C30 *)

InfoKeywords ==
    {"get_locations", "get_window_identifiers", "get_window_names", "get_window_titles"}

\* the page list of the requested browser, as the page catalog holds it
CatalogPages(catalog, browser) ==
    CASE browser = "CURRENT" -> catalog[eng.active]
      [] browser = "ALL"     -> Flatten(catalog, catalog_keys)
      [] OTHER               -> catalog[Lookup(context_indexes, context_aliases, browser)]

\* C30: get_window_titles, get_window_names, get_window_identifiers and get_locations
\* visit the pages of the requested browser in the order of the page catalog (all of
\* them when the call completes, the first ones when it raises part-way) and leave the
\* active page as it was before the call, in both cases.
C30_VisitsInOrderAndRestores ==
    [][(ret'.op \in InfoKeywords /\ ret'.path # "begin") =>
          /\ ActivePage(eng') = ActivePage(eng) /\ eng'.active = eng.active
          /\ ret'.exc \notin {"WindowNotFound", "IndexError"} =>
                 LET pages == CatalogPages(context_page_catalog', ret'.arg)
                 IN  /\ Len(ret'.pages) <= Len(pages)
                     /\ ret'.pages = SubSeq(pages, 1, Len(ret'.pages))
                     /\ ret'.exc = "" => ret'.pages = pages]_vars

\* the read of the second page raised, in a handle other than the active one, and
\* the page of the start is active again
C30_Witness ==
    /\ ret.op = "get_window_names" /\ ret.exc = "EngineError" /\ ret.arg = "ALL"
    /\ Len(ret.pages) = 2 /\ ret.pages[2] # ret.idx
    /\ ActivePage(eng) = ret.idx

====
